---------------------------- MODULE Spec2Model ----------------------------
(***************************************************************************)
(* The marker reconciliation engine of the Khmelnytskyi marker map.        *)
(*                                                                         *)
(* MarkerStore is src/src/lib/db.ts: a JSON file holding the list of       *)
(* markers, read whole by getMarkers and rewritten whole by saveMarkers.   *)
(* The vote handler behind POST /api/markers (submitVote), the orange      *)
(* confirmation rules and the event log are not part of the sources; they  *)
(* are written here from sections 3 and 4.3 of the specification.          *)
(* The pages of the browser are modelled from their components: Home       *)
(* (src/src/app/page.tsx), MapComponent (src/src/lib/backendUrl.ts) and    *)
(* SignupPage (src/src/app/signup/page.tsx).                               *)
(*                                                                         *)
(* Units.  All locations lie on the meridian of the map centre (longitude  *)
(* 26.9871).  A latitude is the arc length from the equator in            *)
(* centimetres on the sphere of radius R = 6371000 m, so that the          *)
(* haversine formula of calculateDistance, which for dLon = 0 reduces to   *)
(* R * |dLat|, is an integer number of centimetres.  Longitudes are in     *)
(* units of 0.0001 degree.  Distances are in centimetres.                  *)
(***************************************************************************)
EXTENDS Integers, Sequences, FiniteSets, TLC

VARIABLES
    file,    \* contents of data/markers.json: the sequence of markers
    events,  \* the event log: sequence of VoteEvent
    now,     \* the last value Date.now() returned
    votes,   \* number of votes accepted since the process started
    last,    \* outcome of the most recent submitVote call
    client,  \* the browser page: outcome of its most recent button click
    procs,   \* the calls in progress: where each stands and what it holds
    replay,  \* a second store, served the same votes in the same order
    io,      \* the most recent store call: whether its file read and its file
             \* write succeeded, and the list getMarkers handed to it
    map,     \* MapComponent: its state, its markers prop, its fetches in flight
    home,    \* Home: the markers it displays and its GET requests in flight
    signup   \* SignupPage: the form, its error and loading state, its request

vars == <<file, events, now, votes, last, client, procs, replay, io, map, home, signup>>

---------------------------------------------------------------------------
(* Bounds of the model *)

\* accepted votes per run
MaxVotes == 3

\* outcomes of Math.random().toString(36).substr(2, 9): the id suffix
Rnd == {0, 1}

\* offsets (cm, northwards of the map centre) of the locations red votes and
\* green votes are cast from.  A green vote is 14999, 15000, 15001, 30000 or
\* 30001 cm away from a red one.
RedOffsets == {0, 1}

GreenOffsets == {15000, 15001, 30001}

\* confirmationCount of the orange marker a persisted store may start with
SeedCounts == {8, 9}

---------------------------------------------------------------------------
(* Program constants *)

\* 150 m, in cm
MATCH_RADIUS_MIN == 15000

\* 300 m, in cm
MATCH_RADIUS_MAX == 30000

CONFIRMATION_THRESHOLD == 10

\* latitude 49.4229 of the map centre: 49.4229 * (pi / 180) * R, in cm
BaseLat == 549557574

\* longitude 26.9871 of the map centre, in 0.0001 degree
BaseLon == 269871

\* 90 degrees of latitude, in cm of arc
MaxLatitude == 1000754339

\* 180 degrees of longitude, in 0.0001 degree
MaxLongitude == 1800000

Colors == {"green", "red"}

\* the votes of a run
Votes ==
    {[latitude |-> BaseLat + o, longitude |-> BaseLon, color |-> "red"] : o \in RedOffsets}
    \cup {[latitude |-> BaseLat + o, longitude |-> BaseLon, color |-> "green"] : o \in GreenOffsets}

\* the reporter identity of a request without one
NoIdentity == ""

---------------------------------------------------------------------------
(* Records *)

Marker(id, latitude, longitude, status, timestamp, lastActionTimestamp, confirmationCount, redPressCount, greenPressCount) ==
    [id |-> id, latitude |-> latitude, longitude |-> longitude,
     status |-> status, timestamp |-> timestamp,
     lastActionTimestamp |-> lastActionTimestamp,
     confirmationCount |-> confirmationCount,
     redPressCount |-> redPressCount, greenPressCount |-> greenPressCount]

NoMarker == Marker(-1, 0, 0, "none", 0, 0, 0, 0, 0)

VoteEvent(markerId, reporterIdentity, voteColor, priorStatus, resultingStatus, distanceMeters, timestamp) ==
    [markerId |-> markerId, reporterIdentity |-> reporterIdentity,
     voteColor |-> voteColor, priorStatus |-> priorStatus,
     resultingStatus |-> resultingStatus, distanceMeters |-> distanceMeters,
     timestamp |-> timestamp]

Range(s) == {s[i] : i \in 1..Len(s)}

Abs(x) == IF x < 0 THEN -x ELSE x

---------------------------------------------------------------------------
(* MarkerStore: src/src/lib/db.ts *)

\* Date.now().toString() + Math.random().toString(36).substr(2, 9): the
\* timestamp followed by the random suffix, read as one numeral.
MkId(t, r) == t * Cardinality(Rnd) + r

\* getMarkers: the parsed file, or [] when reading or parsing throws.
getMarkers(contents, readOk) == IF readOk THEN contents ELSE <<>>

\* fault variant of calculateDistance: the earth radius in kilometres
\* (R = 6371), so that a result is compared in km against radii in metres
calculateDistanceKm(lat1, lon1, lat2, lon2) == Abs(lat2 - lat1) \div 1000

\* calculateDistance on one meridian: dLon = 0, a = sin(dLat/2)^2,
\* c = 2 * atan2(sqrt(a), sqrt(1 - a)) = |dLat|, result R * c.
calculateDistance(lat1, lon1, lat2, lon2) == Abs(lat2 - lat1)

\* fault variant of addMarker: saves the new marker alone, dropping the
\* markers read from the file
addMarkerAlone(markers, marker, t, r) ==
    LET newMarker ==
            Marker(MkId(t, r), marker.latitude, marker.longitude, marker.status,
                   t, marker.lastActionTimestamp, marker.confirmationCount,
                   marker.redPressCount, marker.greenPressCount)
    IN  [saved |-> <<newMarker>>, returned |-> newMarker]

\* fault variant of addMarker: stores every new marker as pending (orange)
addMarkerPending(markers, marker, t, r) ==
    LET newMarker ==
            Marker(MkId(t, r), marker.latitude, marker.longitude, "orange",
                   t, marker.lastActionTimestamp, marker.confirmationCount,
                   marker.redPressCount, marker.greenPressCount)
    IN  [saved |-> Append(markers, newMarker), returned |-> newMarker]

\* addMarker, after `markers = await getMarkers()`: the list it saves and the
\* marker it returns.
addMarker(markers, marker, t, r) ==
    LET newMarker ==
            Marker(MkId(t, r), marker.latitude, marker.longitude, marker.status,
                   t, marker.lastActionTimestamp, marker.confirmationCount,
                   marker.redPressCount, marker.greenPressCount)
    IN  [saved |-> Append(markers, newMarker), returned |-> newMarker]

\* fault variant of removeMarker: the filter keeps the markers with the id
\* (m.id === id) and drops the others
removeMarkerInverted(markers, id) ==
    LET keep(m) == m.id = id
        filtered == SelectSeq(markers, keep)
    IN  IF Len(filtered) = Len(markers)
        THEN [saved |-> markers, returned |-> FALSE]
        ELSE [saved |-> filtered, returned |-> TRUE]

\* removeMarker, after `markers = await getMarkers()`: whether it writes, the
\* list the file holds afterwards, and the boolean it returns.
removeMarker(markers, id) ==
    LET keep(m) == m.id # id
        filtered == SelectSeq(markers, keep)
    IN  IF Len(filtered) = Len(markers)
        THEN [saved |-> markers, returned |-> FALSE]
        ELSE [saved |-> filtered, returned |-> TRUE]

\* fault variant of findRedMarkersInRadius: no filter on the status
findMarkersInRadiusAnyStatus(markers, latitude, longitude, radiusMeters) ==
    LET inRadius(marker) ==
            calculateDistance(latitude, longitude,
                              marker.latitude, marker.longitude) <= radiusMeters
    IN  SelectSeq(markers, inRadius)

\* fault variant of findRedMarkersInRadius: distance < radiusMeters
findRedMarkersInRadiusExclusive(markers, latitude, longitude, radiusMeters) ==
    LET isRed(m) == m.status = "red"
        redMarkers == SelectSeq(markers, isRed)
        inRadius(marker) ==
            calculateDistance(latitude, longitude,
                              marker.latitude, marker.longitude) < radiusMeters
    IN  SelectSeq(redMarkers, inRadius)

\* findRedMarkersInRadius, after `markers = await getMarkers()`.
findRedMarkersInRadius(markers, latitude, longitude, radiusMeters) ==
    LET isRed(m) == m.status = "red"
        redMarkers == SelectSeq(markers, isRed)
        inRadius(marker) ==
            calculateDistance(latitude, longitude,
                              marker.latitude, marker.longitude) <= radiusMeters
    IN  SelectSeq(redMarkers, inRadius)

---------------------------------------------------------------------------
(* ReconciliationEngine and EventLog: specification sections 4.2 - 4.4 *)

\* fault variant of ValidCoordinates: the longitude is not looked at
ValidLatitudeOnly(latitude, longitude) ==
    latitude >= -MaxLatitude /\ latitude <= MaxLatitude

\* coordinates inside the valid latitude / longitude domain
ValidCoordinates(latitude, longitude) ==
    /\ latitude >= -MaxLatitude /\ latitude <= MaxLatitude
    /\ longitude >= -MaxLongitude /\ longitude <= MaxLongitude

\* distance from a vote location to a marker
distanceTo(latitude, longitude, m) ==
    calculateDistance(latitude, longitude, m.latitude, m.longitude)

\* findWithinRadius(lat, lon, radiusMeters, statusFilter) of MarkerStore
findWithinRadius(markers, latitude, longitude, radiusMeters, statusFilter) ==
    LET hit(m) == /\ m.status = statusFilter
                  /\ distanceTo(latitude, longitude, m) <= radiusMeters
    IN  SelectSeq(markers, hit)

\* historyFor(markerId): the events of one marker, oldest first
historyFor(evs, markerId) ==
    LET mine(e) == e.markerId = markerId
    IN  SelectSeq(evs, mine)

\* fault variant of append: keeps one event per marker, the latest
appendLatestOnly(evs, event) ==
    LET others(e) == e.markerId # event.markerId
    IN  Append(SelectSeq(evs, others), event)

\* append(event) of EventLog
append(evs, event) == Append(evs, event)

\* the color that most recently acted on a marker ("none" without history)
intentOf(evs, m) ==
    LET h == historyFor(evs, m.id)
    IN  IF h = <<>> THEN "none" ELSE h[Len(h)].voteColor

\* step 1, clearing candidates of a green vote: red markers in the band
qualifyingRed(markers, latitude, longitude) ==
    LET far(m) == distanceTo(latitude, longitude, m) >= MATCH_RADIUS_MIN
    IN  SelectSeq(findRedMarkersInRadius(markers, latitude, longitude, MATCH_RADIUS_MAX), far)

\* step 1, confirmation candidates: orange markers of the vote's intent in
\* the band
matchingOrange(markers, evs, latitude, longitude, color) ==
    LET ok(m) == /\ distanceTo(latitude, longitude, m) >= MATCH_RADIUS_MIN
                 /\ intentOf(evs, m) = color
    IN  SelectSeq(findWithinRadius(markers, latitude, longitude, MATCH_RADIUS_MAX, "orange"), ok)

\* the single closest candidate, ties broken by lowest id
closest(cands, latitude, longitude) ==
    CHOOSE m \in Range(cands) :
        \A n \in Range(cands) :
            \/ distanceTo(latitude, longitude, m) < distanceTo(latitude, longitude, n)
            \/ /\ distanceTo(latitude, longitude, m) = distanceTo(latitude, longitude, n)
               /\ m.id <= n.id

\* fault variant of pressed: stamps the action time on timestamp instead of
\* lastActionTimestamp
pressedRestamping(m, color, t) ==
    [m EXCEPT !.timestamp = t,
              !.redPressCount = IF color = "red" THEN @ + 1 ELSE @,
              !.greenPressCount = IF color = "green" THEN @ + 1 ELSE @]

\* a marker with one more press of the given color, acted on at time t
pressed(m, color, t) ==
    [m EXCEPT !.lastActionTimestamp = t,
              !.redPressCount = IF color = "red" THEN @ + 1 ELSE @,
              !.greenPressCount = IF color = "green" THEN @ + 1 ELSE @]

\* fault variant of confirmed: at the threshold the status changes and the
\* count is stored as reached, without the return to 0
confirmedKeepingCount(m, color, t) ==
    LET p == pressed(m, color, t)
    IN  IF m.confirmationCount + 1 >= CONFIRMATION_THRESHOLD
        THEN [p EXCEPT !.status = color, !.confirmationCount = m.confirmationCount + 1]
        ELSE [p EXCEPT !.confirmationCount = m.confirmationCount + 1]

\* fault variant of confirmed: the marker resolves only when the count has
\* passed the threshold
confirmedPastThreshold(m, color, t) ==
    LET p == pressed(m, color, t)
    IN  IF m.confirmationCount + 1 > CONFIRMATION_THRESHOLD
        THEN [p EXCEPT !.status = color, !.confirmationCount = 0]
        ELSE [p EXCEPT !.confirmationCount = m.confirmationCount + 1]

\* step 3: one more confirmation; at the threshold the marker resolves to the
\* confirmed color and the count returns to 0
confirmed(m, color, t) ==
    LET p == pressed(m, color, t)
    IN  IF m.confirmationCount + 1 >= CONFIRMATION_THRESHOLD
        THEN [p EXCEPT !.status = color, !.confirmationCount = 0]
        ELSE [p EXCEPT !.confirmationCount = m.confirmationCount + 1]

\* update(markerId, mutation) of MarkerStore, with the confirmation of step 3
\* as the mutation: the list it saves, and whether the id was found
update(markers, markerId, color, t) ==
    [saved |-> [i \in 1..Len(markers) |->
                  IF markers[i].id = markerId
                  THEN confirmed(markers[i], color, t) ELSE markers[i]],
     returned |-> \E i \in 1..Len(markers) : markers[i].id = markerId]

\* steps 1 - 5 of the decision procedure for an accepted vote at time t, with
\* r the random id suffix of a marker it may create: what it does, the marker
\* it acts on, the marker list it leaves in the file, and the event it logs
reconcile(markers, evs, reporterIdentity, latitude, longitude, color, t, r) ==
    LET reds == qualifyingRed(markers, latitude, longitude)
        oranges == matchingOrange(markers, evs, latitude, longitude, color)
    IN  IF color = "green" /\ reds # <<>>
        THEN LET target == closest(reds, latitude, longitude)
             IN  [kind |-> "cleared", target |-> target,
                  saved |-> removeMarker(markers, target.id).saved,
                  event |-> VoteEvent(target.id, reporterIdentity, color, target.status, "cleared",
                                      distanceTo(latitude, longitude, target), t)]
        ELSE IF oranges # <<>>
        THEN LET target == closest(oranges, latitude, longitude)
             IN  [kind |-> "confirmed", target |-> target,
                  saved |-> update(markers, target.id, color, t).saved,
                  event |-> VoteEvent(target.id, reporterIdentity, color, target.status,
                                      confirmed(target, color, t).status,
                                      distanceTo(latitude, longitude, target), t)]
        ELSE LET fresh == pressed(Marker(0, latitude, longitude, color, 0, t, 0, 0, 0), color, t)
                 added == addMarker(markers, fresh, t, r)
             IN  [kind |-> "created", target |-> added.returned,
                  saved |-> added.saved,
                  event |-> VoteEvent(added.returned.id, reporterIdentity, color, "none", color, 0, t)]

NoVote == [reporterIdentity |-> NoIdentity, latitude |-> 0, longitude |-> 0, color |-> "none"]

\* a vote refused before any store access
rejected(error, reporterIdentity, latitude, longitude, color) ==
    /\ last' = [kind |-> error,
                vote |-> [reporterIdentity |-> reporterIdentity, latitude |-> latitude,
                          longitude |-> longitude, color |-> color],
                target |-> NoMarker, before |-> file, logged |-> Len(events)]
    /\ UNCHANGED <<file, events, now, votes>>

\* submitVote(reporterIdentity, latitude, longitude, color), served when
\* Date.now() reads t
submitVote(reporterIdentity, latitude, longitude, color, t, r) ==
    IF reporterIdentity = NoIdentity
    THEN rejected("Unauthenticated", reporterIdentity, latitude, longitude, color)
    ELSE IF ~ValidCoordinates(latitude, longitude)
    THEN rejected("InvalidInput", reporterIdentity, latitude, longitude, color)
    ELSE LET out == reconcile(getMarkers(file, TRUE), events, reporterIdentity,
                              latitude, longitude, color, t, r)
         IN  /\ votes < MaxVotes
             /\ file' = out.saved
             /\ events' = append(events, out.event)
             /\ now' = t
             /\ votes' = votes + 1
             /\ last' = [kind |-> out.kind,
                         vote |-> [reporterIdentity |-> reporterIdentity, latitude |-> latitude,
                                   longitude |-> longitude, color |-> color],
                         target |-> out.target, before |-> file, logged |-> Len(events)]

---------------------------------------------------------------------------
(* What MapComponent shows of a marker *)

\* confirmText of getMarkerTitle, ` (n/10)`: the pair <<n, 10>>, or <<>> for
\* the empty text of a marker that is not orange or whose count is 0
confirmText(marker) ==
    IF marker.status = "orange" /\ marker.confirmationCount # 0
    THEN <<marker.confirmationCount, 10>>
    ELSE <<>>

---------------------------------------------------------------------------
(* Initial states: the process starts on a persisted store *)

\* the orange marker of a persisted store, 150 m north of the map centre
SeedMarker(count, color) ==
    Marker(MkId(0, 0), BaseLat + MATCH_RADIUS_MIN, BaseLon, "orange", 0, 0, count,
           IF color = "red" THEN count + 1 ELSE 0,
           IF color = "green" THEN count + 1 ELSE 0)

\* its history: the votes that acted on it, all of one color
SeedEvents(count, color) ==
    [k \in 1..(count + 1) |->
        VoteEvent(MkId(0, 0), "user@example.com", color, "orange", "orange", MATCH_RADIUS_MIN, 0)]

\* the concurrent callers of a run
Callers == {1, 2}

\* a caller between calls
Idle == [pc |-> "idle", op |-> "none", arg |-> NoMarker, markers |-> <<>>,
         t |-> 0, r |-> 0, event |-> VoteEvent(-1, NoIdentity, "none", "none", "none", 0, 0)]

\* no call in progress: the lock free, the file whole, nothing added or
\* removed yet.  commits collects the pairs <<marker list, event log>> that
\* the start and the completed votes left; seen is the pair a reader last
\* obtained from allMarkers and the log; overlapped tells that a vote arrived
\* while another was being served
NoCalls == [call |-> [c \in Callers |-> Idle], lock |-> 0, torn |-> FALSE,
            added |-> {}, removed |-> {},
            commits |-> {}, seen |-> <<<<>>, <<>>>>, overlapped |-> FALSE]

\* the page before any click: no session token, no alert shown, nothing
\* posted, no marker drawn
NoClick == [token |-> "", alert |-> "", posted |-> FALSE, markers |-> <<>>]

\* no store call yet: nothing failed
NoFault == [readOk |-> TRUE, writeOk |-> TRUE, markers |-> <<>>]

\* the marker id of a closed popup, and the details of none (null)
NoId == 0

\* MapComponent as mounted: useState(null), useState(null), useState(false),
\* no marker passed in yet, no fetch in flight.  markerDetails is the id of
\* the marker the details describe; closedBy tells what closed the popup last
NoPopup == [selectedMarkerId |-> NoId, markerDetails |-> NoId, isLoadingDetails |-> FALSE,
            markers |-> {}, fetches |-> <<>>, closedBy |-> "none"]

\* Home as mounted: useState([]) displayed, no request in flight.  shown is
\* the number of votes the store had accepted when the displayed list was
\* read from it, newest the highest such number among the responses that
\* have arrived; -1 before the first response
NoPoll == [markers |-> <<>>, shown |-> -1, newest |-> -1, requests |-> {}]

\* SignupPage as mounted: empty fields, no error, not loading, no request
\* sent.  pc is where handleSubmit stands, did the handler that ran last,
\* posts the number of requests sent to /api/auth/signup
NoForm == [password |-> "", confirmPassword |-> "", error |-> "", loading |-> FALSE,
           pc |-> "idle", did |-> "none", posts |-> 0]

Init ==
    /\ now = 1
    /\ client = NoClick
    /\ votes = 0
    /\ \/ file = <<>> /\ events = <<>>
       \/ \E count \in SeedCounts, color \in Colors :
            /\ file = <<SeedMarker(count, color)>>
            /\ events = SeedEvents(count, color)
    /\ last = [kind |-> "none", vote |-> NoVote, target |-> NoMarker,
               before |-> file, logged |-> Len(events)]
    /\ procs = [NoCalls EXCEPT !.commits = {<<file, events>>}, !.seen = <<file, events>>]
    /\ replay = [file |-> file, events |-> events, now |-> now, fresh |-> file = <<>>,
                 sameDraws |-> TRUE]
    /\ io = NoFault
    /\ map = NoPopup
    /\ home = NoPoll
    /\ signup = NoForm

\* the requests of a run: authenticated votes, each served when Date.now()
\* reads t (the clock may not have advanced since the request before) and
\* Math.random() yields the suffix r
Next ==
    \E v \in Votes, t \in {now, now + 1}, r \in Rnd :
        /\ submitVote("user@example.com", v.latitude, v.longitude, v.color, t, r)
        /\ UNCHANGED <<client, procs, replay, io, map, home, signup>>

Spec == Init /\ [][Next]_vars

---------------------------------------------------------------------------
(* The page (src/src/app/page.tsx) and the requests that reach the server  *)
(* without passing through it                                              *)

\* accepted votes per run of SpecGate
MaxGateVotes == 2

\* the votes of a run of SpecGate: a red one at the map centre and a green
\* one 150 m north of it
GateVotes == {v \in Votes : v.latitude \in {BaseLat, BaseLat + MATCH_RADIUS_MIN}}

\* session.token of a page without a session
NoToken == ""

\* userLocation before the first geolocation fix
NoLocation == <<>>

\* session.token of the pages of a run: none, one the server knows, and one
\* it does not know
Tokens == {NoToken, "token", "stale"}

\* the reporter identity the server derives from the bearer token
authenticate(token) == IF token = "token" THEN "user@example.com" ELSE NoIdentity

\* coordinates outside the valid domain: a latitude below -90 degrees, a
\* longitude above 180 degrees
InvalidLocations ==
    {<<-(MaxLatitude + 1), BaseLon>>, <<BaseLat, MaxLongitude + 1>>}

Accepts == {"created", "cleared", "confirmed"}

\* fault variant of handleButtonClick: no early return on a missing token
handleButtonClickUnguarded(token, userLocation, status, t, r) ==
    IF userLocation = NoLocation
    THEN /\ client' = [client EXCEPT !.token = token, !.alert = "Waiting for location...",
                                     !.posted = FALSE]
         /\ UNCHANGED <<file, events, now, votes, last>>
    ELSE /\ submitVote(authenticate(token), userLocation[1], userLocation[2], status, t, r)
         /\ client' = IF last'.kind \in Accepts
                      THEN [token |-> token, alert |-> "", posted |-> TRUE, markers |-> file']
                      ELSE [token |-> token, alert |-> last'.kind, posted |-> TRUE,
                            markers |-> client.markers]

\* handleButtonClick(status) on a page whose session holds `token` and whose
\* geolocation is userLocation: the two early returns, else the POST of the
\* vote and, on an ok response, the GET that refreshes the markers drawn
handleButtonClick(token, userLocation, status, t, r) ==
    IF userLocation = NoLocation
    THEN /\ client' = [client EXCEPT !.token = token, !.alert = "Waiting for location...",
                                     !.posted = FALSE]
         /\ UNCHANGED <<file, events, now, votes, last>>
    ELSE IF token = NoToken
    THEN /\ client' = [client EXCEPT !.token = token, !.alert = "Authentication required",
                                     !.posted = FALSE]
         /\ UNCHANGED <<file, events, now, votes, last>>
    ELSE /\ submitVote(authenticate(token), userLocation[1], userLocation[2], status, t, r)
         /\ client' = IF last'.kind \in Accepts
                      THEN [token |-> token, alert |-> "", posted |-> TRUE, markers |-> file']
                      ELSE [token |-> token, alert |-> last'.kind, posted |-> TRUE,
                            markers |-> client.markers]

\* a click on the green or the red button of a page
Click ==
    \E token \in Tokens, v \in GateVotes, located \in BOOLEAN :
        \E t \in IF token = "token" /\ located THEN {now, now + 1} ELSE {now} :
            \E r \in IF token = "token" /\ located THEN Rnd ELSE {0} :
                /\ votes < MaxGateVotes \/ token # "token" \/ ~located
                /\ handleButtonClick(token,
                                     IF located THEN <<v.latitude, v.longitude>> ELSE NoLocation,
                                     v.color, t, r)
                /\ UNCHANGED <<procs, replay, io, map, home, signup>>

\* POST /api/markers sent without an Authorization header
DirectUnauthenticated ==
    \E v \in GateVotes :
        /\ submitVote(NoIdentity, v.latitude, v.longitude, v.color, now, 0)
        /\ UNCHANGED <<client, procs, replay, io, map, home, signup>>

\* POST /api/markers sent with coordinates outside the valid domain
DirectInvalid ==
    \E loc \in InvalidLocations, color \in Colors :
        /\ submitVote("user@example.com", loc[1], loc[2], color, now, 0)
        /\ UNCHANGED <<client, procs, replay, io, map, home, signup>>

GateNext == Click \/ DirectUnauthenticated \/ DirectInvalid

SpecGate == Init /\ [][GateNext]_vars

---------------------------------------------------------------------------
(* MarkerStore driven directly: create, remove and update called with any  *)
(* id, present or not                                                      *)

\* store operations per run of SpecStore
MaxStoreOps == 3

\* the ids a call may name: those create can have assigned, and others
StoreIds == {MkId(t, r) : t \in 0..(MaxStoreOps + 1), r \in Rnd}

\* the outcome of a store operation on the id it was called with
StoreOutcome(kind, id) ==
    [kind |-> kind, vote |-> NoVote, target |-> [NoMarker EXCEPT !.id = id],
     before |-> file, logged |-> Len(events)]

\* create(lat, lon, status): addMarker
StoreCreate ==
    \E v \in GateVotes, t \in {now, now + 1}, r \in Rnd :
        LET out == addMarker(getMarkers(file, TRUE),
                             Marker(0, v.latitude, v.longitude, v.color, 0, t, 0, 0, 0), t, r)
        IN  /\ votes < MaxStoreOps
            /\ file' = out.saved
            /\ now' = t
            /\ votes' = votes + 1
            /\ last' = StoreOutcome("added", out.returned.id)
            /\ UNCHANGED <<events, client, procs, replay, io, map, home, signup>>

\* remove(markerId): removeMarker, false reported as NotFound
StoreRemove ==
    \E id \in StoreIds :
        LET out == removeMarker(getMarkers(file, TRUE), id)
        IN  /\ votes < MaxStoreOps
            /\ file' = out.saved
            /\ votes' = votes + 1
            /\ last' = StoreOutcome(IF out.returned THEN "removed" ELSE "NotFound", id)
            /\ UNCHANGED <<events, now, client, procs, replay, io, map, home, signup>>

\* update(markerId, mutation), with a confirmation as the mutation
StoreUpdate ==
    \E id \in StoreIds, color \in Colors :
        LET out == update(getMarkers(file, TRUE), id, color, now)
        IN  /\ votes < MaxStoreOps
            /\ file' = IF out.returned THEN out.saved ELSE file
            /\ votes' = votes + 1
            /\ last' = StoreOutcome(IF out.returned THEN "updated" ELSE "NotFound", id)
            /\ UNCHANGED <<events, now, client, procs, replay, io, map, home, signup>>

StoreNext == StoreCreate \/ StoreRemove \/ StoreUpdate

SpecStore == Init /\ [][StoreNext]_vars

---------------------------------------------------------------------------
(* MarkerStore called concurrently.  addMarker and removeMarker are async  *)
(* functions: each awaits getMarkers, then changes the list it received    *)
(* and awaits saveMarkers; other calls run between the two awaits.         *)

\* store calls per run of SpecRace
MaxRaceCalls == 2

\* a caller invokes addMarker(marker) or removeMarker(id)
RaceCall(c) ==
    /\ procs.call[c].pc = "idle"
    /\ votes < MaxRaceCalls
    /\ votes' = votes + 1
    /\ \/ \E v \in GateVotes :
            procs' = [procs EXCEPT !.call[c] =
                        [Idle EXCEPT !.pc = "read", !.op = "add",
                                     !.arg = Marker(0, v.latitude, v.longitude, v.color, 0, 0, 0, 0, 0)]]
       \/ \E id \in StoreIds :
            procs' = [procs EXCEPT !.call[c] =
                        [Idle EXCEPT !.pc = "read", !.op = "remove",
                                     !.arg = [NoMarker EXCEPT !.id = id]]]
    /\ UNCHANGED <<file, events, now, last, client, replay, io, map, home, signup>>

\* `const markers = await getMarkers()` resolves; Date.now() and
\* Math.random() are read when the call goes on
RaceRead(c) ==
    /\ procs.call[c].pc = "read"
    /\ \E t \in {now, now + 1}, r \in Rnd :
        /\ procs' = [procs EXCEPT !.call[c].pc = "save",
                                  !.call[c].markers = getMarkers(file, ~procs.torn),
                                  !.call[c].t = t, !.call[c].r = r]
        /\ now' = t
    /\ UNCHANGED <<file, events, votes, last, client, replay, io, map, home, signup>>

\* the rest of the call: the list changed, saveMarkers, the return value
RaceSave(c) ==
    /\ procs.call[c].pc = "save"
    /\ LET call == procs.call[c]
           out == IF call.op = "add"
                  THEN addMarker(call.markers, call.arg, call.t, call.r)
                  ELSE removeMarker(call.markers, call.arg.id)
       IN  /\ file' = IF call.op = "remove" /\ ~out.returned THEN file ELSE out.saved
           /\ procs' = [procs EXCEPT
                          !.call[c] = Idle,
                          !.added = IF call.op = "add" THEN @ \cup {out.returned} ELSE @,
                          !.removed = IF call.op = "remove" /\ out.returned
                                      THEN @ \cup {call.arg.id} ELSE @]
           /\ last' = StoreOutcome(IF call.op = "add" THEN "added"
                                   ELSE IF out.returned THEN "removed" ELSE "NotFound",
                                   IF call.op = "add" THEN out.returned.id ELSE call.arg.id)
    /\ UNCHANGED <<events, now, votes, client, replay, io, map, home, signup>>

RaceNext == \E c \in Callers : RaceCall(c) \/ RaceRead(c) \/ RaceSave(c)

SpecRace == Init /\ [][RaceNext]_vars

---------------------------------------------------------------------------
(* Votes served concurrently, each inside the mutual-exclusion scope of    *)
(* section 5 of the specification, held for steps 1 - 5.  Inside the scope *)
(* a vote reads the file (getMarkers), decides, rewrites the file          *)
(* (saveMarkers: fs.writeFile truncates the file, then writes it) and      *)
(* appends its event.                                                      *)

\* votes per run of SpecWorkers and SpecCancel
MaxWorkerVotes == 2

\* the reporter behind each caller
Reporter(c) == IF c = 1 THEN "user@example.com" ELSE "other@example.com"

\* votes in the match band of the orange marker of a persisted store
WorkerVotes ==
    {v \in Votes : /\ Abs(v.latitude - (BaseLat + MATCH_RADIUS_MIN)) >= MATCH_RADIUS_MIN
                   /\ Abs(v.latitude - (BaseLat + MATCH_RADIUS_MIN)) <= MATCH_RADIUS_MAX}

\* fault variant of mayLock: the scope is entered without waiting
mayLockAlways(lock, c) == TRUE

\* the scope is free
mayLock(lock, c) == lock = 0

\* a request arrives
VoteBegin(c) ==
    /\ procs.call[c].pc = "idle"
    /\ votes < MaxWorkerVotes
    /\ votes' = votes + 1
    /\ \E v \in WorkerVotes :
        procs' = [procs EXCEPT
                    !.call[c] = [Idle EXCEPT !.pc = "wait", !.op = "vote",
                                             !.arg = Marker(0, v.latitude, v.longitude, v.color,
                                                            0, 0, 0, 0, 0)],
                    !.overlapped = @ \/ \E d \in Callers : procs.call[d].pc # "idle"]
    /\ UNCHANGED <<file, events, now, last, client, replay, io, map, home, signup>>

\* it enters the scope
VoteLock(c) ==
    /\ procs.call[c].pc = "wait"
    /\ mayLock(procs.lock, c)
    /\ procs' = [procs EXCEPT !.call[c].pc = "read", !.lock = c]
    /\ UNCHANGED <<file, events, now, votes, last, client, replay, io, map, home, signup>>

\* steps 1 - 4: the markers read, the outcome decided
VoteRead(c) ==
    /\ procs.call[c].pc = "read"
    /\ \E t \in {now, now + 1}, r \in Rnd :
        LET arg == procs.call[c].arg
            out == reconcile(getMarkers(file, ~procs.torn), events, Reporter(c),
                             arg.latitude, arg.longitude, arg.status, t, r)
        IN  /\ procs' = [procs EXCEPT !.call[c].pc = "save",
                                      !.call[c].markers = out.saved,
                                      !.call[c].event = out.event,
                                      !.call[c].t = t, !.call[c].r = r]
            /\ now' = t
    /\ UNCHANGED <<file, events, votes, last, client, replay, io, map, home, signup>>

\* saveMarkers: fs.writeFile opens the file, which truncates it
VoteSave(c) ==
    /\ procs.call[c].pc = "save"
    /\ procs' = [procs EXCEPT !.call[c].pc = "saving", !.torn = TRUE]
    /\ UNCHANGED <<file, events, now, votes, last, client, replay, io, map, home, signup>>

\* saveMarkers: the list is written
VoteSaved(c) ==
    /\ procs.call[c].pc = "saving"
    /\ file' = procs.call[c].markers
    /\ procs' = [procs EXCEPT !.call[c].pc = "log", !.torn = FALSE]
    /\ UNCHANGED <<events, now, votes, last, client, replay, io, map, home, signup>>

\* step 5: the event appended, the scope left
VoteLog(c) ==
    /\ procs.call[c].pc = "log"
    /\ events' = append(events, procs.call[c].event)
    /\ procs' = [procs EXCEPT !.call[c] = Idle, !.lock = 0,
                              !.commits = @ \cup {<<file, events'>>}]
    /\ last' = [kind |-> "voted",
                vote |-> [reporterIdentity |-> Reporter(c),
                          latitude |-> procs.call[c].arg.latitude,
                          longitude |-> procs.call[c].arg.longitude,
                          color |-> procs.call[c].arg.status],
                target |-> NoMarker, before |-> file, logged |-> Len(events)]
    /\ UNCHANGED <<file, now, votes, client, replay, io, map, home, signup>>

WorkersNext ==
    \E c \in Callers :
        VoteBegin(c) \/ VoteLock(c) \/ VoteRead(c) \/ VoteSave(c) \/ VoteSaved(c) \/ VoteLog(c)

SpecWorkers == Init /\ [][WorkersNext]_vars

\* a vote fails or is cancelled between its steps (the request is aborted,
\* the process is killed and restarted): what it wrote stays, the scope is
\* free again
VoteCancel(c) ==
    /\ procs.call[c].pc \in {"read", "save", "saving", "log"}
    /\ procs' = [procs EXCEPT !.call[c] = Idle, !.lock = 0]
    /\ UNCHANGED <<file, events, now, votes, last, client, replay, io, map, home, signup>>

\* a reader calls allMarkers and reads the log while no vote is in the scope
Observe ==
    /\ procs.lock = 0
    /\ procs' = [procs EXCEPT !.seen = <<getMarkers(file, ~procs.torn), events>>]
    /\ UNCHANGED <<file, events, now, votes, last, client, replay, io, map, home, signup>>

CancelNext == WorkersNext \/ (\E c \in Callers : VoteCancel(c)) \/ Observe

SpecCancel == Init /\ [][CancelNext]_vars

---------------------------------------------------------------------------
(* Replay: every vote is served to two stores that started fresh and       *)
(* empty.  Each store has its own clock and its own Math.random().         *)

\* the votes of a run of SpecReplay: red ones at the map centre and 400 m
\* north of it, a green one half way, 200 m from both
ReplayVotes ==
    {[latitude |-> BaseLat, longitude |-> BaseLon, color |-> "red"],
     [latitude |-> BaseLat + 40000, longitude |-> BaseLon, color |-> "red"],
     [latitude |-> BaseLat + 20000, longitude |-> BaseLon, color |-> "green"]}

\* the second store after the vote that submitVote serves to the first
replayVote(run, reporterIdentity, latitude, longitude, color, t, r) ==
    LET out == reconcile(getMarkers(run.file, TRUE), run.events, reporterIdentity,
                         latitude, longitude, color, t, r)
    IN  [run EXCEPT !.file = out.saved,
                    !.events = append(run.events, out.event),
                    !.now = t]

ReplayNext ==
    \E v \in ReplayVotes, t1 \in {now, now + 1}, r1 \in Rnd :
        \E t2 \in {replay.now, replay.now + 1}, r2 \in Rnd :
            /\ replay.fresh
            /\ submitVote("user@example.com", v.latitude, v.longitude, v.color, t1, r1)
            /\ replay' = [replayVote(replay, "user@example.com", v.latitude, v.longitude,
                                     v.color, t2, r2)
                            EXCEPT !.sameDraws = @ /\ t1 = t2 /\ r1 = r2]
            /\ UNCHANGED <<client, procs, io, map, home, signup>>

SpecReplay == Init /\ [][ReplayNext]_vars

---------------------------------------------------------------------------
(* MarkerStore on a file system that fails.  Inside getMarkers fs.readFile  *)
(* and JSON.parse may throw; inside saveMarkers fs.writeFile may throw.     *)

\* store calls per run of SpecFault
MaxFaultOps == 3

\* getMarkers() called by a reader (allMarkers, GET /api/markers): the catch
\* block makes it return a list whatever happened
FaultGet ==
    \E readOk \in BOOLEAN :
        /\ votes < MaxFaultOps
        /\ votes' = votes + 1
        /\ io' = [readOk |-> readOk, writeOk |-> TRUE, markers |-> getMarkers(file, readOk)]
        /\ last' = StoreOutcome("markers", NoMarker.id)
        /\ UNCHANGED <<file, events, now, client, procs, replay, map, home, signup>>

\* addMarker(marker): the list from getMarkers, the new marker pushed, then
\* saveMarkers, which returns or throws; a write that throws leaves the file
\* as it was or cut short, and a file cut short reads as []
FaultAdd ==
    \E v \in GateVotes, t \in {now, now + 1}, r \in Rnd, readOk \in BOOLEAN, writeOk \in BOOLEAN :
        LET markers == getMarkers(file, readOk)
            out == addMarker(markers, Marker(0, v.latitude, v.longitude, v.color, 0, t, 0, 0, 0), t, r)
        IN  /\ votes < MaxFaultOps
            /\ votes' = votes + 1
            /\ now' = t
            /\ io' = [readOk |-> readOk, writeOk |-> writeOk, markers |-> markers]
            /\ IF writeOk
               THEN /\ file' = out.saved
                    /\ last' = StoreOutcome("added", out.returned.id)
               ELSE /\ file' \in {file, <<>>}
                    /\ last' = StoreOutcome("threw", out.returned.id)
            /\ UNCHANGED <<events, client, procs, replay, map, home, signup>>

\* removeMarker(id): the list from getMarkers filtered; false without a write
\* when nothing was filtered out, else saveMarkers
FaultRemove ==
    \E id \in StoreIds, readOk \in BOOLEAN, writeOk \in BOOLEAN :
        LET markers == getMarkers(file, readOk)
            out == removeMarker(markers, id)
        IN  /\ votes < MaxFaultOps
            /\ votes' = votes + 1
            /\ IF ~out.returned
               THEN /\ writeOk
                    /\ file' = file
                    /\ last' = StoreOutcome("NotFound", id)
               ELSE IF writeOk
               THEN /\ file' = out.saved
                    /\ last' = StoreOutcome("removed", id)
               ELSE /\ file' \in {file, <<>>}
                    /\ last' = StoreOutcome("threw", id)
            /\ io' = [readOk |-> readOk, writeOk |-> writeOk, markers |-> markers]
            /\ UNCHANGED <<events, now, client, procs, replay, map, home, signup>>

FaultNext == FaultGet \/ FaultAdd \/ FaultRemove

SpecFault == Init /\ [][FaultNext]_vars

---------------------------------------------------------------------------
(* Votes that must return.  Section 5 of the specification bounds every     *)
(* wait: a store operation that does not answer in time fails the vote     *)
(* with StorageUnavailable, a mutual-exclusion scope that is not obtained  *)
(* in time fails it with ConcurrencyConflict (section 7).  The store is    *)
(* under no obligation to answer: the steps VoteRead, VoteSave, VoteSaved  *)
(* and VoteLog may never happen.                                           *)

\* the vote a caller is serving
VoteOf(c) ==
    [reporterIdentity |-> Reporter(c), latitude |-> procs.call[c].arg.latitude,
     longitude |-> procs.call[c].arg.longitude, color |-> procs.call[c].arg.status]

\* fault variant of storeTimeout: store operations wait without bound
storeTimeoutNever(pc) == FALSE

\* the vote is inside a store operation, whose timeout may expire
storeTimeout(pc) == pc \in {"read", "save", "saving", "log"}

\* the timeout of a store operation expires: the vote fails with
\* StorageUnavailable and leaves the scope
VoteStoreTimeout(c) ==
    /\ storeTimeout(procs.call[c].pc)
    /\ procs' = [procs EXCEPT !.call[c] = Idle, !.lock = 0]
    /\ last' = [kind |-> "StorageUnavailable", vote |-> VoteOf(c), target |-> NoMarker,
                before |-> file, logged |-> Len(events)]
    /\ UNCHANGED <<file, events, now, votes, client, replay, io, map, home, signup>>

\* the timeout of the lock acquisition expires while another vote is in the
\* scope: the vote fails with ConcurrencyConflict
VoteLockTimeout(c) ==
    /\ procs.call[c].pc = "wait"
    /\ procs.lock # 0
    /\ procs' = [procs EXCEPT !.call[c] = Idle]
    /\ last' = [kind |-> "ConcurrencyConflict", vote |-> VoteOf(c), target |-> NoMarker,
                before |-> file, logged |-> Len(events)]
    /\ UNCHANGED <<file, events, now, votes, client, replay, io, map, home, signup>>

LiveNext == WorkersNext \/ \E c \in Callers : VoteStoreTimeout(c) \/ VoteLockTimeout(c)

\* the service starts on an empty store: whether a vote returns does not
\* depend on what the store holds
LiveInit == Init /\ file = <<>>

\* timers fire, and a vote that waits for a free scope enters it
SpecLive ==
    /\ LiveInit
    /\ [][LiveNext]_vars
    /\ \A c \in Callers :
        /\ WF_vars(VoteStoreTimeout(c))
        /\ WF_vars(VoteLock(c) \/ VoteLockTimeout(c))

---------------------------------------------------------------------------
(* MapComponent (src/src/lib/backendUrl.ts, from line 420): the popup with *)
(* the details of the marker the user clicked.  GET /api/markers/{id} is   *)
(* answered after any delay, and answers overtake each other.              *)

\* fetches of marker details in flight at a time
MaxFetches == 2

\* the ids of the markers Home passes to the map
MapIds == {1, 2, 3}

\* handleMarkerClick(markerId), up to the await of fetch
handleMarkerClick(m, markerId) ==
    IF m.selectedMarkerId = markerId
    THEN [m EXCEPT !.selectedMarkerId = NoId, !.markerDetails = NoId, !.closedBy = "marker"]
    ELSE [m EXCEPT !.selectedMarkerId = markerId, !.isLoadingDetails = TRUE,
                   !.fetches = Append(@, markerId)]

\* handleMarkerClick after the await: the i-th fetch in flight is answered
\* with the details of its marker (ok), or fails (a response that is not ok,
\* or fetch throws)
fetchSettled(m, i, ok) ==
    [m EXCEPT !.markerDetails = IF ok THEN m.fetches[i] ELSE @,
              !.isLoadingDetails = FALSE,
              !.fetches = SubSeq(m.fetches, 1, i - 1) \o SubSeq(m.fetches, i + 1, Len(m.fetches))]

\* handleMapClick, and onCloseClick of the InfoWindow
handleMapClick(m) ==
    [m EXCEPT !.selectedMarkerId = NoId, !.markerDetails = NoId, !.closedBy = "map"]

\* fault variant of markersEffect: the selection is kept whatever the list
markersEffectKeeping(m) == m

\* the useEffect on [markersSignature, selectedMarkerId, markers]
markersEffect(m) ==
    IF m.selectedMarkerId # NoId /\ m.selectedMarkerId \notin m.markers
    THEN [m EXCEPT !.selectedMarkerId = NoId, !.markerDetails = NoId, !.closedBy = "effect"]
    ELSE m

\* the user clicks a marker on the map
MarkerClick ==
    \E markerId \in map.markers :
        /\ map.selectedMarkerId = markerId \/ Len(map.fetches) < MaxFetches
        /\ map' = markersEffect(handleMarkerClick(map, markerId))
        /\ UNCHANGED <<file, events, now, votes, last, client, procs, replay, io, home, signup>>

\* the user clicks the map, or closes the popup
MapClick ==
    /\ map' = handleMapClick(map)
    /\ UNCHANGED <<file, events, now, votes, last, client, procs, replay, io, home, signup>>

\* a fetch of details settles
FetchSettled ==
    \E i \in 1..Len(map.fetches), ok \in BOOLEAN :
        /\ map' = fetchSettled(map, i, ok)
        /\ UNCHANGED <<file, events, now, votes, last, client, procs, replay, io, home, signup>>

\* Home passes a refreshed marker list: the render, then the effect
MarkersUpdate ==
    \E markers \in SUBSET MapIds :
        /\ markers # map.markers
        /\ map' = markersEffect([map EXCEPT !.markers = markers])
        /\ UNCHANGED <<file, events, now, votes, last, client, procs, replay, io, home, signup>>

MapNext == MarkerClick \/ MapClick \/ FetchSettled \/ MarkersUpdate

SpecMap == Init /\ [][MapNext]_vars

---------------------------------------------------------------------------
(* Home (src/src/app/page.tsx): the marker list on screen.  fetchMarkers   *)
(* runs on mount and every 3 seconds; handleButtonClick fetches the list   *)
(* again after a vote that was accepted.  Every response that arrives is   *)
(* passed to setMarkers; responses arrive after any delay, in any order.   *)

\* accepted votes per run of SpecHome
MaxHomeVotes == 2

\* GET /api/markers requests in flight at a time
MaxRequests == 2

\* GET /api/markers as the server answers it: the list, and the number of
\* votes the store had accepted when the list was read
snapshot == [markers |-> getMarkers(file, TRUE), version |-> votes]

\* fetchMarkers, or the refresh of handleButtonClick, after the await: an ok
\* response replaces the list on screen, any other response changes nothing
setMarkers(h, response, ok) ==
    IF ok
    THEN [h EXCEPT !.markers = response.markers,
                   !.shown = response.version,
                   !.newest = IF response.version > @ THEN response.version ELSE @,
                   !.requests = @ \ {response}]
    ELSE [h EXCEPT !.requests = @ \ {response}]

\* the interval fires (or the page mounts): fetchMarkers sends its request,
\* which the server answers from the store as it is
HomePoll ==
    /\ Cardinality(home.requests) < MaxRequests
    /\ home' = [home EXCEPT !.requests = @ \cup {snapshot}]
    /\ UNCHANGED <<file, events, now, votes, last, client, procs, replay, io, map, signup>>

\* handleButtonClick with a location and a token: the POST is served, and on
\* its ok response the page sends the GET that refreshes the list
HomeVote ==
    \E v \in GateVotes, t \in {now, now + 1}, r \in Rnd :
        /\ votes < MaxHomeVotes
        /\ Cardinality(home.requests) < MaxRequests
        /\ submitVote(authenticate("token"), v.latitude, v.longitude, v.color, t, r)
        /\ home' = [home EXCEPT !.requests = @ \cup {[markers |-> getMarkers(file', TRUE),
                                                      version |-> votes']}]
        /\ UNCHANGED <<client, procs, replay, io, map, signup>>

\* the response of a request arrives
HomeArrive ==
    \E response \in home.requests, ok \in BOOLEAN :
        /\ home' = setMarkers(home, response, ok)
        /\ UNCHANGED <<file, events, now, votes, last, client, procs, replay, io, map, signup>>

HomeNext == HomePoll \/ HomeVote \/ HomeArrive

SpecHome == Init /\ [][HomeNext]_vars

---------------------------------------------------------------------------
(* SignupPage (src/src/app/signup/page.tsx): handleSubmit *)

\* requests to /api/auth/signup per run of SpecSignup
MaxPosts == 2

\* what the user types into the password fields: five characters, six, seven
Passwords == {"12345", "123456", "1234567"}

\* data.error of a response that is not ok: absent, or a message
DataErrors == {"", "User already exists"}

\* fault variant of handleSubmit: the length is checked before the match
handleSubmitLengthFirst(f) ==
    IF Len(f.password) < 6
    THEN [f EXCEPT !.error = "Password must be at least 6 characters", !.did = "submit"]
    ELSE IF f.password # f.confirmPassword
    THEN [f EXCEPT !.error = "Passwords do not match", !.did = "submit"]
    ELSE [f EXCEPT !.error = "", !.loading = TRUE, !.pc = "signup", !.did = "submit",
                   !.posts = @ + 1]

\* handleSubmit up to `await fetch`: setError(''), the two checks with their
\* early returns, setLoading(true), the POST
handleSubmit(f) ==
    IF f.password # f.confirmPassword
    THEN [f EXCEPT !.error = "Passwords do not match", !.did = "submit"]
    ELSE IF Len(f.password) < 6
    THEN [f EXCEPT !.error = "Password must be at least 6 characters", !.did = "submit"]
    ELSE [f EXCEPT !.error = "", !.loading = TRUE, !.pc = "signup", !.did = "submit",
                   !.posts = @ + 1]

\* handleSubmit after `await fetch`: fetch or response.json() threw; or the
\* response is not ok and carries dataError; or it is ok and the automatic
\* login starts
signupResponse(f, outcome, dataError) ==
    IF outcome = "threw"
    THEN [f EXCEPT !.error = "An error occurred during registration", !.loading = FALSE,
                   !.pc = "idle", !.did = "response"]
    ELSE IF outcome = "not ok"
    THEN [f EXCEPT !.error = IF dataError # "" THEN dataError
                             ELSE "An error occurred during registration",
                   !.loading = FALSE, !.pc = "idle", !.did = "response"]
    ELSE [f EXCEPT !.pc = "signIn", !.did = "response"]

\* handleSubmit after `await signIn`: the import or signIn threw; or the
\* result is ok and the router goes to /; or it is not and the router goes
\* to /login
signInResult(f, outcome) ==
    IF outcome = "threw"
    THEN [f EXCEPT !.error = "An error occurred during registration", !.loading = FALSE,
                   !.pc = "idle", !.did = "signIn"]
    ELSE IF outcome = "ok"
    THEN [f EXCEPT !.pc = "/", !.did = "signIn"]
    ELSE [f EXCEPT !.pc = "/login", !.did = "signIn"]

\* the user types into the password field and the confirmation field
SignupType ==
    \E password \in Passwords, confirmPassword \in Passwords :
        /\ signup.pc \in {"idle", "signup", "signIn"}
        /\ signup' = [signup EXCEPT !.password = password,
                                    !.confirmPassword = confirmPassword, !.did = "typed"]
        /\ UNCHANGED <<file, events, now, votes, last, client, procs, replay, io, map, home>>

\* the form is submitted; its button is disabled while loading
SignupSubmit ==
    /\ signup.pc = "idle"
    /\ ~signup.loading
    /\ signup.posts < MaxPosts
    /\ signup' = handleSubmit(signup)
    /\ UNCHANGED <<file, events, now, votes, last, client, procs, replay, io, map, home>>

\* the request to /api/auth/signup settles
SignupResponse ==
    \E outcome \in {"ok", "not ok", "threw"}, dataError \in DataErrors :
        /\ signup.pc = "signup"
        /\ signup' = signupResponse(signup, outcome, dataError)
        /\ UNCHANGED <<file, events, now, votes, last, client, procs, replay, io, map, home>>

\* the automatic login settles
SignupSignIn ==
    \E outcome \in {"ok", "not ok", "threw"} :
        /\ signup.pc = "signIn"
        /\ signup' = signInResult(signup, outcome)
        /\ UNCHANGED <<file, events, now, votes, last, client, procs, replay, io, map, home>>

SignupNext == SignupType \/ SignupSubmit \/ SignupResponse \/ SignupSignIn

SpecSignup == Init /\ [][SignupNext]_vars

---------------------------------------------------------------------------
(* Vocabulary of the properties.  `last` describes the most recent vote:   *)
(* last.before is the marker list it found, last.vote its input, last.kind *)
(* what it did and last.target the marker it acted on.                     *)

\* centimetres between a marker and the location of a vote
Apart(m, v) == IF m.latitude >= v.latitude THEN m.latitude - v.latitude ELSE v.latitude - m.latitude

Accepted == last.kind \in Accepts

\* the markers the last vote found
Before == Range(last.before)

After == Range(file)

\* the event log the last vote found
LogBefore == SubSeq(events, 1, last.logged)

\* red markers inside the match band of the last vote
QualifyingBefore ==
    {m \in Before : m.status = "red" /\ Apart(m, last.vote) >= MATCH_RADIUS_MIN
                                     /\ Apart(m, last.vote) <= MATCH_RADIUS_MAX}

\* orange markers inside the match band of the last vote
OrangeInBand ==
    {m \in Before : m.status = "orange" /\ Apart(m, last.vote) >= MATCH_RADIUS_MIN
                                        /\ Apart(m, last.vote) <= MATCH_RADIUS_MAX}

\* those among them whose intent is the color of the vote
MatchingBefore == {m \in OrangeInBand : intentOf(LogBefore, m) = last.vote.color}

\* the marker list without its i-th element
Without(s, i) == [j \in 1..(Len(s) - 1) |-> IF j < i THEN s[j] ELSE s[j + 1]]

\* the fields of a marker that identify it
Immutable(m) == <<m.id, m.latitude, m.longitude, m.timestamp>>

---------------------------------------------------------------------------
(* C1: an accepted vote that finds no marker of any status within 300 m of *)
(* its location appends exactly one marker to the store, at the vote's     *)
(* coordinates, with the vote's color and confirmationCount 0, and leaves  *)
(* every marker that was stored as it was.                                 *)
C1_CreatesOneMarker ==
    (Accepted /\ \A m \in Before : Apart(m, last.vote) > MATCH_RADIUS_MAX)
        => /\ last.kind = "created"
           /\ Len(file) = Len(last.before) + 1
           /\ SubSeq(file, 1, Len(last.before)) = last.before
           /\ file[Len(file)].latitude = last.vote.latitude
           /\ file[Len(file)].longitude = last.vote.longitude
           /\ file[Len(file)].status = last.vote.color
           /\ file[Len(file)].confirmationCount = 0

\* a vote created a marker in a store that held markers, all beyond 300 m
C1_Witness ==
    /\ last.kind = "created"
    /\ last.before # <<>>
    /\ \A m \in Before : Apart(m, last.vote) > MATCH_RADIUS_MAX

---------------------------------------------------------------------------
(* C2: a green vote that finds a red marker at a distance in [150, 300] m  *)
(* and no red marker closer than 150 m clears a red marker: the marker it  *)
(* clears is a qualifying one at the smallest distance, among those at     *)
(* that distance one of lowest id, and no marker of that id stays stored.  *)
C2_ClearsClosestLowestId ==
    (/\ Accepted
     /\ last.vote.color = "green"
     /\ QualifyingBefore # {}
     /\ \A m \in Before : m.status = "red" => Apart(m, last.vote) >= MATCH_RADIUS_MIN)
        => /\ last.kind = "cleared"
           /\ last.target \in QualifyingBefore
           /\ \A n \in QualifyingBefore :
                \/ Apart(last.target, last.vote) < Apart(n, last.vote)
                \/ /\ Apart(last.target, last.vote) = Apart(n, last.vote)
                   /\ last.target.id <= n.id
           /\ \A m \in After : m.id # last.target.id

\* a green vote cleared one of two qualifying red markers that were equally
\* far away, the one of lower id, which was stored after the other
C2_Witness ==
    /\ last.kind = "cleared"
    /\ \A m \in Before : m.status = "red" => Apart(m, last.vote) >= MATCH_RADIUS_MIN
    /\ \E i, j \in 1..Len(last.before) :
        /\ i < j
        /\ last.before[j] = last.target
        /\ last.before[i] \in QualifyingBefore
        /\ Apart(last.before[i], last.vote) = Apart(last.target, last.vote)
        /\ last.before[i].id > last.target.id

---------------------------------------------------------------------------
---------------------------------------------------------------------------
(* C4: a green vote that clears a red marker removes exactly that one      *)
(* marker: the stored list afterwards is the list before without one       *)
(* element, the cleared marker; nothing is added and nothing else changes. *)
C4_ClearRemovesExactlyOne ==
    last.kind = "cleared"
        => \E i \in 1..Len(last.before) :
                /\ last.before[i] = last.target
                /\ file = Without(last.before, i)

\* the same, for a store in which no id is held by two markers
C4_ClearRemovesExactlyOneOfDistinct ==
    (/\ last.kind = "cleared"
     /\ \A i, j \in 1..Len(last.before) : last.before[i].id = last.before[j].id => i = j)
        => \E i \in 1..Len(last.before) :
                /\ last.before[i] = last.target
                /\ file = Without(last.before, i)

---------------------------------------------------------------------------
(* C5: clearing has priority over confirmation.  A green vote that finds a *)
(* qualifying red marker clears it, and every orange marker inside the     *)
(* band stays stored with its status and confirmationCount.                *)
C5_ClearBeforeConfirm ==
    (Accepted /\ last.vote.color = "green" /\ QualifyingBefore # {})
        => /\ last.kind = "cleared"
           /\ last.target.status = "red"
           /\ \A i \in 1..Len(last.before) :
                last.before[i] \in OrangeInBand
                    => \E j \in 1..Len(file) :
                        /\ file[j].id = last.before[i].id
                        /\ file[j].status = "orange"
                        /\ file[j].confirmationCount = last.before[i].confirmationCount
           /\ \A m \in After : m.status = "orange" => m \in Before

\* a green vote cleared a red marker while an orange marker of green intent,
\* which the vote would otherwise have confirmed, was inside the band
C5_Witness ==
    /\ last.kind = "cleared"
    /\ last.vote.color = "green"
    /\ MatchingBefore # {}

---------------------------------------------------------------------------
(* C6: a vote that finds an orange marker of its own intent in the band,   *)
(* and no red marker in the band, confirms such a marker.  A confirmation  *)
(* of a marker whose confirmationCount is CONFIRMATION_THRESHOLD - 1       *)
(* stores it with the color of the vote and confirmationCount 0; a         *)
(* confirmation of a marker with a lower count stores it orange with the   *)
(* count raised by 1.                                                      *)
C6_ThresholdResolves ==
    /\ (Accepted /\ MatchingBefore # {} /\ QualifyingBefore = {})
            => last.kind = "confirmed" /\ last.target \in MatchingBefore
    /\ last.kind = "confirmed"
            => /\ \E m \in After : m.id = last.target.id
               /\ \A m \in After :
                    m.id = last.target.id
                        => IF last.target.confirmationCount = CONFIRMATION_THRESHOLD - 1
                           THEN /\ m.status = last.vote.color
                                /\ m.status \in Colors
                                /\ m.confirmationCount = 0
                           ELSE /\ last.target.confirmationCount < CONFIRMATION_THRESHOLD - 1
                                /\ m.status = "orange"
                                /\ m.confirmationCount = last.target.confirmationCount + 1

\* a vote confirmed an orange marker that stood at 9 confirmations, with no
\* red marker in the band
C6_Witness ==
    /\ last.kind = "confirmed"
    /\ QualifyingBefore = {}
    /\ last.target.status = "orange"
    /\ last.target.confirmationCount = CONFIRMATION_THRESHOLD - 1
    /\ \E m \in After : m.id = last.target.id /\ m.status = last.vote.color

---------------------------------------------------------------------------
(* C7: in every step, a marker that is orange before and after the step    *)
(* has a confirmationCount at least as high after it, and is not set to 0  *)
(* from a higher count; a marker that is orange before the step and green  *)
(* or red after it has confirmationCount 0 after it.                       *)
C7_CountStep ==
    \A i \in 1..Len(file) : \A j \in 1..Len(file') :
        (file[i].id = file'[j].id /\ file[i].status = "orange")
            => IF file'[j].status = "orange"
               THEN /\ file'[j].confirmationCount >= file[i].confirmationCount
                    /\ file'[j].confirmationCount = 0 => file[i].confirmationCount = 0
               ELSE file'[j].confirmationCount = 0

C7_CountMonotoneResetOnLeave == [][C7_CountStep]_vars

\* a marker left orange, with its count back at 0, after an earlier vote of
\* the run had raised its count while it stayed orange
C7_Witness ==
    /\ last.kind = "confirmed"
    /\ last.target.status = "orange"
    /\ \E m \in After : /\ m.id = last.target.id
                        /\ m.status \in Colors
                        /\ m.confirmationCount = 0
    /\ \E k \in 1..last.logged :
        /\ events[k].markerId = last.target.id
        /\ events[k].timestamp >= 1
        /\ events[k].resultingStatus = "orange"

---------------------------------------------------------------------------
(* C8: no marker enters the store orange.  A vote that creates a marker    *)
(* appends one marker, whose status is the color of the vote, green or     *)
(* red; a vote that creates none adds no marker to the list.               *)
C8_CreatedWithVoteColor ==
    /\ last.kind = "created"
            => /\ Len(file) = Len(last.before) + 1
               /\ file[Len(file)].status = last.vote.color
               /\ file[Len(file)].status \in Colors
    /\ last.kind \in {"cleared", "confirmed"} => Len(file) <= Len(last.before)

\* a vote created a marker inside the band of an orange marker
C8_Witness ==
    /\ last.kind = "created"
    /\ OrangeInBand # {}

---------------------------------------------------------------------------
(* C9: a marker leaves the store only when a green vote clears it while it *)
(* is red: whenever a stored marker's id is no longer stored after a vote, *)
(* the vote was green, it cleared a marker, and the marker was red.        *)
C9_OnlyClearedRedLeaves ==
    \A o \in Before :
        (\A m \in After : m.id # o.id)
            => /\ last.kind = "cleared"
               /\ last.vote.color = "green"
               /\ o.status = "red"

\* the same, for a store in which no id is held by two markers
C9_OnlyClearedRedLeavesOfDistinct ==
    (\A i, j \in 1..Len(last.before) : last.before[i].id = last.before[j].id => i = j)
        => \A o \in Before :
            (\A m \in After : m.id # o.id)
                => /\ last.kind = "cleared"
                   /\ last.vote.color = "green"
                   /\ o.status = "red"

---------------------------------------------------------------------------
(* C10: votes never change a stored marker's id, latitude, longitude or    *)
(* creation timestamp: after a vote that creates or confirms a marker,     *)
(* every record stored before the vote is still stored, at its place in    *)
(* the list, with the id, latitude, longitude and timestamp it had; after  *)
(* a vote that clears a marker, every record still stored has the id,      *)
(* latitude, longitude and timestamp of a record stored before the vote.   *)
C10_IdentityImmutable ==
    /\ last.kind \in {"created", "confirmed"}
            => /\ Len(file) >= Len(last.before)
               /\ \A i \in 1..Len(last.before) :
                    i <= Len(file) => Immutable(file[i]) = Immutable(last.before[i])
    /\ last.kind = "cleared"
            => \A m \in After : \E o \in Before : Immutable(o) = Immutable(m)

\* a vote changed the status of a stored marker
C10_Witness ==
    /\ last.kind = "confirmed"
    /\ \E i \in 1..Len(last.before) :
        /\ i <= Len(file)
        /\ file[i].status # last.before[i].status
        /\ Immutable(file[i]) = Immutable(last.before[i])

---------------------------------------------------------------------------
\* the press counter of a color
presses(m, color) == IF color = "red" THEN m.redPressCount ELSE m.greenPressCount

\* the last vote raised the counter of its color by 1 on the marker it
\* created or matched, left the other counter, and lowered no counter
C11_PressStep ==
    /\ last.kind = "created"
            => /\ Len(file) = Len(last.before) + 1
               /\ \A c \in Colors :
                    presses(file[Len(file)], c) = IF c = last.vote.color THEN 1 ELSE 0
    /\ last.kind \in {"created", "confirmed"}
            => /\ Len(file) >= Len(last.before)
               /\ \A i \in 1..Len(last.before) : \A c \in Colors :
                    i <= Len(file)
                        => presses(file[i], c) =
                              IF /\ last.kind = "confirmed"
                                 /\ last.before[i].id = last.target.id
                                 /\ c = last.vote.color
                              THEN presses(last.before[i], c) + 1
                              ELSE presses(last.before[i], c)
    /\ last.kind = "cleared" => \A m \in After : m \in Before

\* no marker was created under an id the log already knew
IdsNeverReused ==
    \A i, j \in 1..Len(events) :
        (i < j /\ events[j].priorStatus = "none") => events[i].markerId # events[j].markerId

(* C11: press counters never decrease, every accepted vote that creates or *)
(* matches a marker raises that marker's counter of the vote's color by    *)
(* exactly 1 and leaves the other, and for every stored marker the sum of  *)
(* its two counters equals the number of votes the log records against it *)
(* (the length of historyFor of its id).                                   *)
C11_PressCountsMatchVotes ==
    /\ C11_PressStep
    /\ \A m \in After :
        m.redPressCount + m.greenPressCount = Len(historyFor(events, m.id))

\* the same, for runs in which no id was assigned twice
C11_PressCountsMatchVotesOfDistinct ==
    IdsNeverReused
        => /\ C11_PressStep
           /\ \A m \in After :
                m.redPressCount + m.greenPressCount = Len(historyFor(events, m.id))

---------------------------------------------------------------------------
\* one step of the log: what it held stays, in place and unchanged; a step
\* that accepts a vote adds one event, about the marker the vote acted on;
\* any other step adds none
C12_LogStep ==
    /\ Len(events') >= Len(events)
    /\ \A k \in 1..Len(events) : k <= Len(events') => events'[k] = events[k]
    /\ votes' = votes + 1
            => /\ last'.kind \in Accepts
               /\ Len(events') = Len(events) + 1
               /\ events'[Len(events')].markerId = last'.target.id
               /\ events'[Len(events')].voteColor = last'.vote.color
    /\ votes' = votes => events' = events
    /\ last'.kind \in {"Unauthenticated", "InvalidInput"} => events' = events

(* C12: the event log is append-only with exactly one VoteEvent per        *)
(* accepted vote: in every step the events already logged stay unchanged,  *)
(* an accepted vote (create, clear or confirm) adds exactly one event, and *)
(* a rejected vote adds none; the events of a removed marker stay.         *)
C12_EventLogAppendOnly == [][C12_LogStep]_vars

\* a vote cleared a marker whose earlier events are still in the log
C12_Witness ==
    /\ last.kind = "cleared"
    /\ \A m \in After : m.id # last.target.id
    /\ Len(events) = last.logged + 1
    /\ \E k \in 1..last.logged : events[k].markerId = last.target.id

---------------------------------------------------------------------------
\* one step: a vote that reached the server without reporter identity is
\* answered Unauthenticated and leaves the marker list and the log as they
\* were; a click on a page without session token posts nothing and leaves
\* the server as it was
C13_Step ==
    /\ (last'.kind # "none" /\ last'.vote.reporterIdentity = NoIdentity)
            => /\ last'.kind = "Unauthenticated"
               /\ file' = file
               /\ events' = events
               /\ last'.before = file
    /\ last'.kind = "Unauthenticated" => last'.vote.reporterIdentity = NoIdentity
    /\ (client' # client /\ client'.token = NoToken)
            => /\ ~client'.posted
               /\ UNCHANGED <<file, events, now, votes, last>>
    /\ client'.token = NoToken => ~client'.posted

(* C13: a vote without reporter identity is rejected with Unauthenticated  *)
(* and changes nothing: the marker list and the event log after it equal   *)
(* those before it; handleButtonClick on a page whose session has no token *)
(* sends no POST.                                                          *)
C13_UnauthenticatedChangesNothing == [][C13_Step]_vars

\* on a store that holds a marker, a vote without identity was rejected and
\* a click without token was refused by the page
C13_Witness ==
    /\ last.kind = "Unauthenticated"
    /\ last.before # <<>>
    /\ file = last.before
    /\ client.token = NoToken
    /\ client.alert = "Authentication required"
    /\ ~client.posted

---------------------------------------------------------------------------
\* latitude within +-90 degrees and longitude within +-180 degrees
InDomain(v) ==
    /\ v.latitude >= -MaxLatitude /\ v.latitude <= MaxLatitude
    /\ v.longitude >= -MaxLongitude /\ v.longitude <= MaxLongitude

\* one step: an identified vote with a coordinate outside the domain is
\* answered InvalidInput, and the marker list and the log stay as they were
C14_Step ==
    /\ (last'.kind # "none" /\ last'.vote.reporterIdentity # NoIdentity /\ ~InDomain(last'.vote))
            => /\ last'.kind = "InvalidInput"
               /\ last'.target = NoMarker
               /\ file' = file
               /\ events' = events
               /\ last'.before = file
    /\ last'.kind = "InvalidInput" => ~InDomain(last'.vote)
    /\ \A i \in 1..Len(file') : InDomain(file'[i])

(* C14: a vote whose latitude or longitude lies outside the valid domain   *)
(* is rejected with InvalidInput and writes nothing: no marker is created, *)
(* removed or mutated, no event is appended, and no stored marker has      *)
(* coordinates outside the domain.                                         *)
C14_InvalidInputChangesNothing == [][C14_Step]_vars

\* on a store that holds a marker, a vote with a longitude beyond 180
\* degrees was rejected
C14_Witness ==
    /\ last.kind = "InvalidInput"
    /\ last.vote.longitude > MaxLongitude
    /\ last.before # <<>>
    /\ file = last.before
    /\ Len(events) = last.logged

---------------------------------------------------------------------------
\* the last store call named an id no stored marker held
Absent == \A m \in Before : m.id # last.target.id

(* C15: remove and update called with an id that is not in the store       *)
(* report NotFound and leave the stored list unchanged; called with an id  *)
(* that is in the store they do not report NotFound; remove of a present   *)
(* id deletes exactly one marker, the one with that id, and leaves the     *)
(* others in place.                                                        *)
C15_NotFoundOrExactlyOne ==
    /\ (last.kind \in {"removed", "updated", "NotFound"} /\ Absent)
            => last.kind = "NotFound" /\ file = last.before
    /\ last.kind = "NotFound" => Absent /\ file = last.before
    /\ last.kind = "removed"
            => \E i \in 1..Len(last.before) :
                /\ last.before[i].id = last.target.id
                /\ file = Without(last.before, i)

\* the same, for a store in which no id is held by two markers
C15_NotFoundOrExactlyOneOfDistinct ==
    (\A i, j \in 1..Len(last.before) : last.before[i].id = last.before[j].id => i = j)
        => /\ (last.kind \in {"removed", "updated", "NotFound"} /\ Absent)
                    => last.kind = "NotFound" /\ file = last.before
           /\ last.kind = "NotFound" => Absent /\ file = last.before
           /\ last.kind = "removed"
                    => \E i \in 1..Len(last.before) :
                        /\ last.before[i].id = last.target.id
                        /\ file = Without(last.before, i)

---------------------------------------------------------------------------
\* every call has returned
Quiescent == \A c \in Callers : procs.call[c].pc = "idle"

(* C18: once all concurrent addMarker / removeMarker calls have returned,  *)
(* the persisted list contains every marker a successful addMarker         *)
(* returned whose id no successful removeMarker was called with.           *)
C18_NoLostWrite ==
    Quiescent
        => \A m \in procs.added : m.id \notin procs.removed => m \in After

---------------------------------------------------------------------------
\* the votes the log holds about the orange marker of a persisted store,
\* after the one that made it orange
SeedConfirmations ==
    LET confirming(e) == e.markerId = MkId(0, 0) /\ e.priorStatus = "orange"
    IN  Len(SelectSeq(events, confirming)) - 1

\* the events that resolved it
SeedResolutions ==
    {k \in 1..Len(events) : /\ events[k].markerId = MkId(0, 0)
                             /\ events[k].priorStatus = "orange"
                             /\ events[k].resultingStatus \in Colors}

(* C17: concurrent confirmation votes on one orange marker are serialized: *)
(* once all votes have returned, the marker's confirmationCount and status *)
(* are those of the logged confirmations applied one after the other -     *)
(* orange with one count per confirmation below the threshold, resolved    *)
(* with count 0 at the threshold - and the resolution fired once per       *)
(* CONFIRMATION_THRESHOLD confirmations.                                   *)
C17_ConfirmationsSerialized ==
    (Quiescent /\ SeedConfirmations >= 0)
        => /\ \A m \in After :
                m.id = MkId(0, 0)
                    => /\ m.confirmationCount = SeedConfirmations % CONFIRMATION_THRESHOLD
                       /\ (m.status = "orange") = (SeedConfirmations < CONFIRMATION_THRESHOLD)
                       /\ m.redPressCount + m.greenPressCount = SeedConfirmations + 1
           /\ Cardinality(SeedResolutions) = SeedConfirmations \div CONFIRMATION_THRESHOLD

\* both callers confirmed the orange marker, which started at 8, the second
\* vote arriving while the first was being served; it is resolved and all
\* votes have returned
C17_Witness ==
    /\ Quiescent
    /\ procs.overlapped
    /\ \E m \in After : m.id = MkId(0, 0) /\ m.status \in Colors /\ m.confirmationCount = 0
    /\ \A c \in Callers :
        \E k \in 1..Len(events) :
            /\ events[k].markerId = MkId(0, 0)
            /\ events[k].timestamp >= 1
            /\ events[k].reporterIdentity = Reporter(c)

(* C16: a vote is all-or-nothing for readers: the marker list and the      *)
(* event log a reader obtains are those left by the start or by a          *)
(* completed vote - never a marker change without its event or an event    *)
(* without its marker change - also when a vote fails or is cancelled      *)
(* between its steps.                                                      *)
C16_AllOrNothing == procs.seen \in procs.commits

---------------------------------------------------------------------------
\* what replay compares of a marker: coordinates, status and counters
Shape(m) == <<m.latitude, m.longitude, m.status, m.confirmationCount,
              m.redPressCount, m.greenPressCount>>

\* how many markers of a list have a shape
ShapeCount(markers, sh) == Cardinality({i \in 1..Len(markers) : Shape(markers[i]) = sh})

\* two lists hold the same markers, whatever their ids, timestamps and order
SameMarkers(a, b) ==
    /\ Len(a) = Len(b)
    /\ \A i \in 1..Len(a) : ShapeCount(a, Shape(a[i])) = ShapeCount(b, Shape(a[i]))

(* C19: replay determinism: two fresh empty stores that are served the     *)
(* same votes in the same order hold, after every vote, the same markers   *)
(* (coordinates and status) with the same confirmationCount, redPressCount *)
(* and greenPressCount.                                                    *)
C19_ReplayDeterminism == replay.fresh => SameMarkers(file, replay.file)

\* the same, for two runs in which Date.now() and Math.random() returned
\* the same values
C19_ReplayDeterminismOfSameDraws ==
    (replay.fresh /\ replay.sameDraws) => SameMarkers(file, replay.file)

\* no marker of a log was created under an id the log already knew
NeverReusedIn(evs) ==
    \A i, j \in 1..Len(evs) :
        (i < j /\ evs[j].priorStatus = "none") => evs[i].markerId # evs[j].markerId

\* the same as C19, for two runs in neither of which an id was assigned
\* twice: the runs still differ, by the order of the ids of two markers
\* created in the same millisecond
C19_ReplayDeterminismOfDistinct ==
    (replay.fresh /\ NeverReusedIn(events) /\ NeverReusedIn(replay.events))
        => SameMarkers(file, replay.file)

---------------------------------------------------------------------------
(* C20: marker ids are unique: no two markers of the store have the same   *)
(* id, and create never assigns an id that a marker of the store holds,    *)
(* whatever the sequence of create and remove calls.                       *)
C20_IdsUnique ==
    /\ \A i, j \in 1..Len(file) : file[i].id = file[j].id => i = j
    /\ last.kind \in {"added", "created"} => \A m \in Before : m.id # last.target.id

\* the same, for calls each served at a later reading of Date.now() than
\* every call before
C20_IdsUniqueOfDistinctTimes ==
    (\A i, j \in 1..Len(file) : (i # j) => file[i].timestamp # file[j].timestamp)
        => \A i, j \in 1..Len(file) : file[i].id = file[j].id => i = j

---------------------------------------------------------------------------
\* what a store call hands back when it completes normally
NormalResults == {"markers", "added", "removed", "NotFound"}

(* C21: a storage failure is never turned into a normal result: a store    *)
(* call during which the read or the write of the marker file failed ends  *)
(* with an error for its caller to report as StorageUnavailable, never     *)
(* with a successful value such as an empty marker list.                   *)
C21_StorageFailureTyped ==
    (last.kind # "none" /\ ~(io.readOk /\ io.writeOk)) => last.kind \notin NormalResults

\* the same, for the calls whose read of the file succeeded
C21_StorageFailureTypedOfGoodRead ==
    (last.kind # "none" /\ io.readOk /\ ~io.writeOk) => last.kind \notin NormalResults

---------------------------------------------------------------------------
(* C26: addMarker never drops a stored marker: whatever the outcome of its *)
(* read of the marker file, the list persisted after addMarker returned is *)
(* the list persisted before the call followed by the one new marker.      *)
C26_AddKeepsStored ==
    last.kind = "added"
        => /\ Len(file) = Len(last.before) + 1
           /\ SubSeq(file, 1, Len(last.before)) = last.before
           /\ file[Len(file)].id = last.target.id

\* the same, for the calls whose read of the file succeeded
C26_AddKeepsStoredOfGoodRead ==
    (last.kind = "added" /\ io.readOk)
        => /\ Len(file) = Len(last.before) + 1
           /\ SubSeq(file, 1, Len(last.before)) = last.before
           /\ file[Len(file)].id = last.target.id

---------------------------------------------------------------------------
---------------------------------------------------------------------------
(* C23: in every reachable state each stored marker that is green or red   *)
(* has confirmationCount 0 and each stored orange marker has a             *)
(* confirmationCount of at least 0 and below CONFIRMATION_THRESHOLD; the   *)
(* title of a marker never shows a count of 10 or more out of 10.          *)
C23_CountBelowThreshold ==
    \A i \in 1..Len(file) :
        /\ file[i].status \in Colors => file[i].confirmationCount = 0
        /\ file[i].status = "orange"
                => /\ file[i].confirmationCount >= 0
                   /\ file[i].confirmationCount < CONFIRMATION_THRESHOLD
        /\ confirmText(file[i]) # <<>>
                => /\ confirmText(file[i])[1] < CONFIRMATION_THRESHOLD
                   /\ confirmText(file[i])[2] = CONFIRMATION_THRESHOLD

\* a confirmation has brought an orange marker to the highest count that can
\* be stored, one below the threshold, next to a marker that a vote created
C23_Witness ==
    /\ last.kind = "confirmed"
    /\ \E m \in After : /\ m.id = last.target.id
                        /\ m.status = "orange"
                        /\ m.confirmationCount = CONFIRMATION_THRESHOLD - 1
                        /\ confirmText(m) = <<CONFIRMATION_THRESHOLD - 1, 10>>
    /\ \E m \in After : m.status \in Colors /\ m.timestamp >= 1

---------------------------------------------------------------------------
(* C24: a vote never removes or mutates a marker that is closer than 150 m *)
(* to the vote location: after an accepted vote every marker that was      *)
(* stored closer than 150 m is still stored, with every field as it was;   *)
(* in particular a green vote whose red markers are all closer than 150 m  *)
(* removes none of them.                                                   *)
C24_NoActionBelowMin ==
    Accepted
        => \A m \in Before : Apart(m, last.vote) < MATCH_RADIUS_MIN => m \in After

\* the same, for a store in which no id is held by two markers
C24_NoActionBelowMinOfDistinct ==
    (/\ Accepted
     /\ \A i, j \in 1..Len(last.before) : last.before[i].id = last.before[j].id => i = j)
        => \A m \in Before : Apart(m, last.vote) < MATCH_RADIUS_MIN => m \in After

---------------------------------------------------------------------------
\* the id is held by a marker of the list
Holds(markers, id) == \E i \in 1..Len(markers) : markers[i].id = id

\* one step: a removeMarker call that had read the marker returns.  If the
\* marker is still stored the call removes it and reports so; if another
\* call has removed it meanwhile, the call reports NotFound and writes
\* nothing
C25_Step ==
    \A c \in Callers :
        (/\ procs.call[c].pc = "save"
         /\ procs.call[c].op = "remove"
         /\ procs'.call[c].pc = "idle"
         /\ Holds(procs.call[c].markers, procs.call[c].arg.id))
            => IF Holds(file, procs.call[c].arg.id)
               THEN last'.kind = "removed" /\ ~Holds(file', procs.call[c].arg.id)
               ELSE last'.kind = "NotFound" /\ file' = file

(* C25: when two green votes concurrently select the same red marker for   *)
(* clearing, the marker is removed once and exactly one of the two reports *)
(* it cleared; the other finds that the id no longer exists (removeMarker  *)
(* returns false, NotFound) and performs no store write.                   *)
C25_ClearedOnce == [][C25_Step]_vars

\* one step: the same, for a call during which no other call changed the
\* file
C25_StepOfUnchangedStore ==
    \A c \in Callers :
        (/\ procs.call[c].pc = "save"
         /\ procs.call[c].op = "remove"
         /\ procs'.call[c].pc = "idle"
         /\ Holds(procs.call[c].markers, procs.call[c].arg.id)
         /\ file = procs.call[c].markers)
            => last'.kind = "removed" /\ ~Holds(file', procs.call[c].arg.id)

\* the same as C25, for calls that do not overlap a write of another call
C25_ClearedOnceOfUnchangedStore == [][C25_StepOfUnchangedStore]_vars

---------------------------------------------------------------------------
\* the popup shows details: a marker of the list is selected, details are
\* present and the loading flag is off
PopupShowsDetails ==
    /\ map.selectedMarkerId # NoId
    /\ map.selectedMarkerId \in map.markers
    /\ map.markerDetails # NoId
    /\ ~map.isLoadingDetails

(* C27: for every interleaving of marker clicks, map clicks and answers of *)
(* the detail fetches, failed ones included, whenever the popup shows      *)
(* details the details are those of the selected marker: markerDetails.id  *)
(* equals selectedMarkerId.                                                *)
C27_DetailsOfSelected ==
    PopupShowsDetails => map.markerDetails = map.selectedMarkerId

\* the same, while no fetch is in flight
C27_DetailsOfSelectedWhenSettled ==
    (PopupShowsDetails /\ map.fetches = <<>>) => map.markerDetails = map.selectedMarkerId

---------------------------------------------------------------------------
\* one step: a new marker list without the selected marker resets
\* selectedMarkerId and markerDetails to null; a new list with it, or with
\* nothing selected, keeps both; and after every step the selected marker,
\* if any, is in the list
C28_Step ==
    /\ map'.markers # map.markers
            => IF map.selectedMarkerId # NoId /\ map.selectedMarkerId \notin map'.markers
               THEN map'.selectedMarkerId = NoId /\ map'.markerDetails = NoId
               ELSE /\ map'.selectedMarkerId = map.selectedMarkerId
                    /\ map'.markerDetails = map.markerDetails
    /\ map'.selectedMarkerId # NoId => map'.selectedMarkerId \in map'.markers

---------------------------------------------------------------------------
(* C29: Home never replaces the displayed marker list by an older server   *)
(* snapshot: for every interleaving of the poll requests and the           *)
(* post-vote refresh, once their responses have all arrived the list on    *)
(* screen is the one read from the newest store state among them, so that  *)
(* a marker the user's own vote created or cleared does not revert.        *)
C29_NewestSnapshotShown ==
    home.requests = {} => home.shown = home.newest

\* one step: the list on screen is never replaced by one read from an older
\* store state
C29_StepOfNoOvertaking ==
    (\A response \in home.requests : response.version >= home.shown)
        => home'.shown >= home.shown

\* the same as C29, for responses none of which is older than the list on
\* screen when it arrives
C29_NewestSnapshotShownOfNoOvertaking == [][C29_StepOfNoOvertaking]_vars

---------------------------------------------------------------------------
\* one step of the signup form.  A submit with differing passwords sets the
\* error 'Passwords do not match', whatever their length, sends nothing and
\* leaves loading false; a submit with equal passwords shorter than 6 sets
\* 'Password must be at least 6 characters', sends nothing and leaves
\* loading false; any other submit sends one request; and a request or an
\* automatic login that fails ends with loading false and an error message
C30_Step ==
    /\ signup'.did = "submit"
            => IF signup.password # signup.confirmPassword
               THEN /\ signup'.error = "Passwords do not match"
                    /\ signup'.posts = signup.posts
                    /\ ~signup'.loading
               ELSE IF Len(signup.password) < 6
               THEN /\ signup'.error = "Password must be at least 6 characters"
                    /\ signup'.posts = signup.posts
                    /\ ~signup'.loading
               ELSE /\ signup'.posts = signup.posts + 1
                    /\ signup'.loading
    /\ signup'.posts # signup.posts
            => /\ signup'.did = "submit"
               /\ signup.password = signup.confirmPassword
               /\ Len(signup.password) >= 6
    /\ (signup.pc \in {"signup", "signIn"} /\ signup'.pc = "idle")
            => ~signup'.loading /\ signup'.error # ""

(* C30: handleSubmit of the signup page sends no request to                *)
(* /api/auth/signup and leaves loading false whenever password differs     *)
(* from confirmPassword (error 'Passwords do not match', checked first) or *)
(* password is shorter than 6 characters (error 'Password must be at least *)
(* 6 characters'); it sends a request only when both checks pass, and on   *)
(* every failure after the request (a response that is not ok, a thrown    *)
(* error) loading is false again and an error message is set.              *)
C30_SubmitValidatesFirst == [][C30_Step]_vars

\* after a request that failed, a submit with passwords that differ and are
\* too short was refused for the mismatch, without a second request
C30_Witness ==
    /\ signup.did = "submit"
    /\ signup.error = "Passwords do not match"
    /\ signup.password # signup.confirmPassword
    /\ Len(signup.password) < 6
    /\ ~signup.loading
    /\ signup.posts = 1

============================================================================
